---- MODULE Spec2Model ----
(***************************************************************************)
(* Wave Function Collapse solver (wfc/tiles.py, wfc/core.py).              *)
(*                                                                         *)
(* A TileSet is a record [tiles, constraints]: the tile catalog (the keys  *)
(* of TileSet.tiles) and the adjacency dictionary (a function whose DOMAIN *)
(* is the set of declared keys).  A grid is a function from coordinates    *)
(* <<x, y>> to cells [possibilities, collapsed].                           *)
(***************************************************************************)
EXTENDS Integers, Sequences, FiniteSets, TLC

\* ----------------------------------------------------------------- bounds
\* The shipped tile sets are explored on grids of at most MaxCells cells
\* (width * height <= MaxCells).
MaxCells == 5
\* The synthetic tile sets are explored on grids of at most SmallMaxCells cells.
SmallMaxCells == 3
\* The synthetic tile sets range over the first SmallN tile types.
SmallN == 2
\* generate_step calls made on one grid are capped (the counter is unbounded).
StepCap == 6
\* generate(max_steps) is called with max_steps in 1..MaxStepsArg.
MaxStepsArg == 3
\* generate() is explored on grids of at most GenMaxCells cells.
GenMaxCells == 2
\* Two solvers sharing the process-wide generator are built with a seed in
\* 0..MaxSeed, on grids of at most TwinMaxCells cells.
MaxSeed == 2
TwinMaxCells == 3
\* The process-wide generator is abstracted to RngModulus states.
RngModulus == 16

\* ------------------------------------------------------------------ tiles
\* class TileType(Enum), in declaration order
TypeOrder == <<"grass", "water", "sand", "forest", "mountain", "stone", "snow">>

TileType == {TypeOrder[i] : i \in 1..Len(TypeOrder)}

\* TileSet.__init__: the catalog of seven tiles and the default constraints
DefaultTileSet ==
  [tiles |-> TileType,
   constraints |->
     [t \in TileType |->
        CASE t = "grass"    -> {"grass", "forest", "mountain", "sand", "stone"}
          [] t = "water"    -> {"water", "sand"}
          [] t = "sand"     -> {"sand", "water", "grass", "stone"}
          [] t = "forest"   -> {"forest", "grass", "mountain", "stone"}
          [] t = "mountain" -> {"mountain", "grass", "forest", "stone", "snow"}
          [] t = "stone"    -> {"stone", "mountain", "grass", "forest", "sand"}
          [] t = "snow"     -> {"snow", "mountain", "stone"}]]

\* BiomeTileSet.create_ocean_biome: cls() with the constraints replaced
OceanBiome ==
  [tiles |-> DefaultTileSet.tiles,
   constraints |->
     [t \in {"water", "sand", "grass", "forest"} |->
        CASE t = "water"  -> {"water", "sand"}
          [] t = "sand"   -> {"sand", "water", "grass"}
          [] t = "grass"  -> {"grass", "sand", "forest"}
          [] t = "forest" -> {"forest", "grass"}]]

\* BiomeTileSet.create_mountain_biome: cls() with the constraints replaced
MountainBiome ==
  [tiles |-> DefaultTileSet.tiles,
   constraints |->
     [t \in {"grass", "forest", "mountain", "stone", "snow"} |->
        CASE t = "grass"    -> {"grass", "forest", "stone"}
          [] t = "forest"   -> {"forest", "grass", "mountain"}
          [] t = "mountain" -> {"mountain", "forest", "stone", "snow"}
          [] t = "stone"    -> {"stone", "mountain", "grass"}
          [] t = "snow"     -> {"snow", "mountain"}]]

\* TileSet.get_valid_neighbors: constraints.get(tile_type, set())
GetValidNeighbors(ts, tile_type) ==
  IF tile_type \in DOMAIN ts.constraints THEN ts.constraints[tile_type] ELSE {}

\* TileSet.can_be_adjacent: tile2 in constraints.get(tile1, set())
CanBeAdjacent(ts, tile1, tile2) ==
  IF tile1 \in DOMAIN ts.constraints THEN tile2 \in ts.constraints[tile1] ELSE FALSE

\* TileSet.get_all_types: set(self.tiles.keys())
GetAllTypes(ts) == ts.tiles

\* Faulty variant of validate_constraints: the catalog lookup is left out.
ValidateConstraintsNoCatalog(ts) ==
  \A tile_type \in DOMAIN ts.constraints :
    \A neighbor \in ts.constraints[tile_type] :
      tile_type \in GetValidNeighbors(ts, neighbor)

\* TileSet.validate_constraints: the two nested loops return False at the
\* first offending (tile_type, neighbor) and True when there is none.
ValidateConstraints(ts) ==
  \A tile_type \in DOMAIN ts.constraints :
    \A neighbor \in ts.constraints[tile_type] :
      /\ ~(tile_type \notin GetValidNeighbors(ts, neighbor))
      /\ ~(neighbor \notin ts.tiles)

\* ------------------------------------------------------------------- grid
Coords(w, h) == (0..(w - 1)) \X (0..(h - 1))

\* Cell.entropy
Entropy(cell) ==
  IF ~cell.collapsed THEN Cardinality(cell.possibilities) ELSE 0

\* Faulty variant of collapse_to: the candidates are narrowed, the flag is not
\* set.
CollapseToUnflagged(cell, tile_type) ==
  IF tile_type \notin cell.possibilities
  THEN [ok |-> FALSE, cell |-> cell]
  ELSE [ok |-> TRUE,
        cell |-> [possibilities |-> {tile_type}, collapsed |-> FALSE]]

\* Faulty variant of collapse_to: the flag is set, the candidates are kept.
CollapseToKeepingAll(cell, tile_type) ==
  IF tile_type \notin cell.possibilities
  THEN [ok |-> FALSE, cell |-> cell]
  ELSE [ok |-> TRUE,
        cell |-> [possibilities |-> cell.possibilities, collapsed |-> TRUE]]

\* Cell.collapse_to: [ok, cell]
CollapseTo(cell, tile_type) ==
  IF tile_type \notin cell.possibilities
  THEN [ok |-> FALSE, cell |-> cell]
  ELSE [ok |-> TRUE,
        cell |-> [possibilities |-> {tile_type}, collapsed |-> TRUE]]

\* Faulty variant of initialize_grid: the last row is one cell short.
InitializeGridRagged(ts, w, h) ==
  [c \in Coords(w, h) \ {<<w - 1, h - 1>>} |->
     [possibilities |-> GetAllTypes(ts), collapsed |-> FALSE]]

\* WaveFunctionCollapse.initialize_grid: every cell holds a copy of all types
InitializeGrid(ts, w, h) ==
  [c \in Coords(w, h) |->
     [possibilities |-> GetAllTypes(ts), collapsed |-> FALSE]]

\* the (dx, dy) list of get_neighbors, in its order
Directions == << <<0, 1>>, <<0, -1>>, <<1, 0>>, <<-1, 0>> >>

\* Faulty variant of get_neighbors: the direction (-1, 0) is missing.
GetNeighborsNoLeft(w, h, c) ==
  LET cand == [i \in 1..(Len(Directions) - 1) |->
                 <<c[1] + Directions[i][1], c[2] + Directions[i][2]>>]
      InBounds(p) == 0 <= p[1] /\ p[1] < w /\ 0 <= p[2] /\ p[2] < h
  IN SelectSeq(cand, InBounds)

\* WaveFunctionCollapse.get_neighbors: the in-bounds neighbours, in order
GetNeighbors(w, h, c) ==
  LET cand == [i \in 1..Len(Directions) |->
                 <<c[1] + Directions[i][1], c[2] + Directions[i][2]>>]
      InBounds(p) == 0 <= p[1] /\ p[1] < w /\ 0 <= p[2] /\ p[2] < h
  IN SelectSeq(cand, InBounds)

\* the order of "for row in self.grid: for cell in row"
RowMajor(w, h) == [i \in 1..(w * h) |-> <<(i - 1) % w, (i - 1) \div w>>]

\* float('inf') of find_min_entropy_cells: above every entropy
InfEntropy == Cardinality(TileType) + 1

\* the loop body of find_min_entropy_cells over the remaining cells
RECURSIVE FindMinScan(_, _, _, _)
FindMinScan(g, cells, min_entropy, candidates) ==
  IF cells = <<>> THEN candidates
  ELSE LET c == Head(cells)
           e == Entropy(g[c])
       IN IF ~g[c].collapsed /\ e > 0
          THEN IF e < min_entropy
               THEN FindMinScan(g, Tail(cells), e, <<c>>)
               ELSE IF e = min_entropy
                    THEN FindMinScan(g, Tail(cells), min_entropy,
                                     Append(candidates, c))
                    ELSE FindMinScan(g, Tail(cells), min_entropy, candidates)
          ELSE FindMinScan(g, Tail(cells), min_entropy, candidates)

\* Faulty variant of find_min_entropy_cells: the first eligible cell only.
FindFirstEligibleCell(g, w, h) ==
  LET Eligible(c) == ~g[c].collapsed /\ Entropy(g[c]) > 0
      el == SelectSeq(RowMajor(w, h), Eligible)
  IN IF el = <<>> THEN <<>> ELSE <<Head(el)>>

\* Faulty variant of find_min_entropy_cells: no candidate is ever found.
FindNoCells(g, w, h) == <<>>

\* WaveFunctionCollapse.find_min_entropy_cells
FindMinEntropyCells(g, w, h) ==
  FindMinScan(g, RowMajor(w, h), InfEntropy, <<>>)

\* list(cell.possibilities): the members in one fixed iteration order
ListOf(possibilities) ==
  LET In(t) == t \in possibilities IN SelectSeq(TypeOrder, In)

\* Faulty variant of collapse_cell: the j-th tile type is chosen whether or not
\* it is a candidate.
CollapseCellAnyType(cell, j) ==
  IF cell.possibilities = {} THEN [ok |-> FALSE, cell |-> cell]
  ELSE IF cell.collapsed THEN [ok |-> TRUE, cell |-> cell]
  ELSE [ok |-> TRUE,
        cell |-> [possibilities |-> {TypeOrder[j]}, collapsed |-> TRUE]]

\* Faulty variant of collapse_cell: the cell is reported collapsed and left as
\* it was.
CollapseCellNoop(cell, j) == [ok |-> TRUE, cell |-> cell]

\* WaveFunctionCollapse.collapse_cell, j the index random.choice draws: [ok, cell]
CollapseCell(cell, j) ==
  IF cell.possibilities = {} THEN [ok |-> FALSE, cell |-> cell]
  ELSE IF cell.collapsed THEN [ok |-> TRUE, cell |-> cell]
  ELSE CollapseTo(cell, ListOf(cell.possibilities)[j])

\* Faulty variant of is_complete: no grid is ever reported complete.
IsCompleteNever(g) == FALSE

\* WaveFunctionCollapse.is_complete
IsComplete(g) == \A c \in DOMAIN g : ~(~g[c].collapsed)

\* WaveFunctionCollapse.has_contradiction
HasContradiction(g) ==
  \E c \in DOMAIN g : ~g[c].collapsed /\ g[c].possibilities = {}

\* Faulty variant of the admissible set: every tile type is admitted.
ValidForNeighborAll(ts, current_cell) == GetAllTypes(ts)

\* propagate_constraints, lines 147-156: the admissible set for a neighbour
ValidForNeighbor(ts, current_cell) ==
  IF current_cell.collapsed
  THEN GetValidNeighbors(ts, CHOOSE t \in current_cell.possibilities : TRUE)
  ELSE UNION {GetValidNeighbors(ts, possible_type) :
                possible_type \in current_cell.possibilities}

\* Faulty variant of the inner loop: an emptied neighbour is not reported.
RECURSIVE PropagateNeighborsUnchecked(_, _, _, _, _)
PropagateNeighborsUnchecked(ts, g, cur, nbrs, queue) ==
  IF nbrs = <<>> THEN [ok |-> TRUE, grid |-> g, queue |-> queue]
  ELSE LET n == Head(nbrs) IN
       IF g[n].collapsed
       THEN PropagateNeighborsUnchecked(ts, g, cur, Tail(nbrs), queue)
       ELSE LET old_possibilities == g[n].possibilities
                new == old_possibilities \cap ValidForNeighbor(ts, g[cur])
            IN PropagateNeighborsUnchecked(ts,
                 [g EXCEPT ![n].possibilities = new], cur, Tail(nbrs),
                 IF new # old_possibilities THEN Append(queue, n) ELSE queue)

\* propagate_constraints, the inner loop over the neighbours left to examine of
\* the dequeued coordinate cur: [ok, grid, queue]
RECURSIVE PropagateNeighbors(_, _, _, _, _)
PropagateNeighbors(ts, g, cur, nbrs, queue) ==
  IF nbrs = <<>> THEN [ok |-> TRUE, grid |-> g, queue |-> queue]
  ELSE LET n == Head(nbrs) IN
       IF g[n].collapsed
       THEN PropagateNeighbors(ts, g, cur, Tail(nbrs), queue)
       ELSE LET old_possibilities == g[n].possibilities
                new == old_possibilities \cap ValidForNeighbor(ts, g[cur])
                g2 == [g EXCEPT ![n].possibilities = new]
            IN IF new = {}
               THEN [ok |-> FALSE, grid |-> g2, queue |-> queue]
               ELSE PropagateNeighbors(ts, g2, cur, Tail(nbrs),
                      IF new # old_possibilities THEN Append(queue, n)
                      ELSE queue)

\* Faulty variant of the while loop: nothing is dequeued.
PropagateLoopSkipped(ts, w, h, g, queue, visited) == [ok |-> TRUE, grid |-> g]

\* propagate_constraints, the while loop: [ok, grid]
RECURSIVE PropagateLoop(_, _, _, _, _, _)
PropagateLoop(ts, w, h, g, queue, visited) ==
  IF queue = <<>> THEN [ok |-> TRUE, grid |-> g]
  ELSE LET c == Head(queue) IN
       IF c \in visited
       THEN PropagateLoop(ts, w, h, g, Tail(queue), visited)
       ELSE LET r == PropagateNeighbors(ts, g, c, GetNeighbors(w, h, c),
                                        Tail(queue))
            IN IF ~r.ok THEN [ok |-> FALSE, grid |-> r.grid]
               ELSE PropagateLoop(ts, w, h, r.grid, r.queue,
                                  visited \cup {c})

\* WaveFunctionCollapse.propagate_constraints(start_x, start_y): [ok, grid]
PropagateConstraints(ts, w, h, g, start) ==
  PropagateLoop(ts, w, h, g, <<start>>, {})

\* ------------------------------------------------------------ one step
\* the chosen-cell slot of a step that selected no cell
NoCell == <<>>

StepReturn(g, gs, cont, kind, cell) ==
  [grid |-> g, generation_step |-> gs, cont |-> cont, kind |-> kind,
   cell |-> cell]

\* Faulty variant of generate_step: the counter counts only the calls that
\* select a cell.
GenerateStepCountingCollapses(ts, w, h, g, gs, i, j) ==
  LET step == gs + 1 IN
  IF HasContradiction(g) THEN StepReturn(g, gs, FALSE, "contradiction", NoCell)
  ELSE IF IsComplete(g) THEN StepReturn(g, gs, FALSE, "complete", NoCell)
  ELSE LET candidates == FindMinEntropyCells(g, w, h) IN
       IF candidates = <<>> THEN StepReturn(g, gs, FALSE, "no_cells", NoCell)
       ELSE LET chosen == candidates[i]
                col == CollapseCell(g[chosen], j)
                g1 == [g EXCEPT ![chosen] = col.cell]
            IN IF ~col.ok
               THEN StepReturn(g1, step, FALSE, "collapse_failed", chosen)
               ELSE LET prop == PropagateConstraints(ts, w, h, g1, chosen)
                    IN IF ~prop.ok
                       THEN StepReturn(prop.grid, step, FALSE,
                                       "propagation_failed", chosen)
                       ELSE StepReturn(prop.grid, step, TRUE,
                                       "collapsed", chosen)

\* Faulty variant of generate_step: the propagation result is ignored.
GenerateStepIgnoringPropagation(ts, w, h, g, gs, i, j) ==
  LET step == gs + 1 IN
  IF HasContradiction(g) THEN StepReturn(g, step, FALSE, "contradiction", NoCell)
  ELSE IF IsComplete(g) THEN StepReturn(g, step, FALSE, "complete", NoCell)
  ELSE LET candidates == FindMinEntropyCells(g, w, h) IN
       IF candidates = <<>> THEN StepReturn(g, step, FALSE, "no_cells", NoCell)
       ELSE LET chosen == candidates[i]
                col == CollapseCell(g[chosen], j)
                prop == PropagateConstraints(ts, w, h,
                          [g EXCEPT ![chosen] = col.cell], chosen)
            IN StepReturn(prop.grid, step, TRUE, "collapsed", chosen)

\* WaveFunctionCollapse.generate_step; i and j are the indices the two
\* random.choice calls draw (into candidates, into list(possibilities)).
\* Returns the new grid and counter with (continue, kind of message, cell).
GenerateStep(ts, w, h, g, gs, i, j) ==
  LET step == gs + 1 IN
  IF HasContradiction(g) THEN StepReturn(g, step, FALSE, "contradiction", NoCell)
  ELSE IF IsComplete(g) THEN StepReturn(g, step, FALSE, "complete", NoCell)
  ELSE LET candidates == FindMinEntropyCells(g, w, h) IN
       IF candidates = <<>> THEN StepReturn(g, step, FALSE, "no_cells", NoCell)
       ELSE LET chosen == candidates[i]
                col == CollapseCell(g[chosen], j)
                g1 == [g EXCEPT ![chosen] = col.cell]
            IN IF ~col.ok
               THEN StepReturn(g1, step, FALSE, "collapse_failed", chosen)
               ELSE LET prop == PropagateConstraints(ts, w, h, g1, chosen)
                    IN IF ~prop.ok
                       THEN StepReturn(prop.grid, step, FALSE,
                                       "propagation_failed", chosen)
                       ELSE StepReturn(prop.grid, step, TRUE,
                                       "collapsed", chosen)

\* the indices random.choice(candidates) can draw in grid g (one dummy index
\* when generate_step returns before drawing)
CellDraws(g, w, h) ==
  IF HasContradiction(g) \/ IsComplete(g) \/ FindMinEntropyCells(g, w, h) = <<>>
  THEN {1}
  ELSE 1..Len(FindMinEntropyCells(g, w, h))

\* the indices random.choice(list(cell.possibilities)) can draw for draw i
TypeDraws(g, w, h, i) ==
  IF HasContradiction(g) \/ IsComplete(g) \/ FindMinEntropyCells(g, w, h) = <<>>
  THEN {1}
  ELSE LET cell == g[FindMinEntropyCells(g, w, h)[i]] IN
       IF cell.possibilities = {} \/ cell.collapsed THEN {1}
       ELSE 1..Cardinality(cell.possibilities)

\* ------------------------------------------------------------ the solver
\* self.max_retries
max_retries == 10

VARIABLES
  tileset,          \* the TileSet handed to the constructor
  width, height,    \* the grid size handed to the constructor
  phase,            \* "new" | "ready" (constructed) | "error" (ValueError)
  grid,             \* self.grid
  generation_step,  \* self.generation_step
  ret,              \* what the last generate_step call returned
  pc,               \* "idle" | "attempt" | "steps": the position inside generate()
  attempt,          \* generate(): the attempt index
  step,             \* generate(): the steps taken in this attempt
  max_steps,        \* generate(): its argument
  result,           \* what the last generate() call returned: "True", "False" ("none" before)
  seed,             \* the seed handed to both constructors of the twin solvers
  rng,              \* the state of the process-wide generator of module random
  twin,             \* the twin solvers: [phase, grid, result] of solver 1 and 2
  prop,             \* propagate_constraints in progress: its locals (PropIdle outside a call)
  grid_tileset      \* the TileSet initialize_grid read when it built self.grid

soloVars == <<phase, grid, generation_step, ret, pc, attempt, step, max_steps,
              result>>

twinVars == <<seed, rng, twin>>

vars == <<tileset, width, height, soloVars, twinVars, prop, grid_tileset>>

\* no propagate_constraints call is in progress
PropIdle ==
  [pc |-> "idle", queue |-> <<>>, visited |-> {}, cur |-> NoCell,
   nbrs |-> <<>>, start |-> NoCell, expanded |-> <<>>, shrunk |-> {}]

\* self.grid = [] of __init__: initialize_grid has read no TileSet yet
NoTileSet == [tiles |-> {}, constraints |-> <<>>]

NoTwins == [i \in {1, 2} |-> [phase |-> "new", grid |-> <<>>, result |-> "none"]]

SmallTypes == {TypeOrder[i] : i \in 1..SmallN}

PartialFunctions(S, T) == UNION {[D -> T] : D \in SUBSET S}

\* every catalog and adjacency dictionary over the small types, valid or not
SmallTileSets ==
  [tiles : SUBSET SmallTypes,
   constraints : PartialFunctions(SmallTypes, SUBSET SmallTypes)]

ShippedTileSets == {DefaultTileSet, OceanBiome, MountainBiome}

Dims(n) == {d \in (1..n) \X (1..n) : d[1] * d[2] <= n}

\* the constructor arguments explored: <<tileset, <<width, height>>>>
Configs ==
  (ShippedTileSets \X Dims(MaxCells)) \cup (SmallTileSets \X Dims(SmallMaxCells))

NoReturn == [cont |-> FALSE, kind |-> "none", cell |-> NoCell]

Init ==
  /\ \E cfg \in Configs :
       tileset = cfg[1] /\ width = cfg[2][1] /\ height = cfg[2][2]
  /\ phase = "new"
  /\ grid = <<>>
  /\ generation_step = 0
  /\ ret = NoReturn
  /\ pc = "idle"
  /\ attempt = 0
  /\ step = 0
  /\ max_steps = 0
  /\ result = "none"
  /\ seed = 0
  /\ rng = 0
  /\ twin = NoTwins
  /\ prop = PropIdle
  /\ grid_tileset = NoTileSet

\* Faulty variant of __init__: the validation is skipped.
ConstructUnchecked ==
  /\ phase = "new"
  /\ phase' = "ready"
  /\ grid' = InitializeGrid(tileset, width, height)
  /\ grid_tileset' = tileset
  /\ generation_step' = 0
  /\ UNCHANGED <<tileset, width, height, ret, pc, attempt, step, max_steps,
                 result>>
  /\ UNCHANGED <<twinVars, prop>>

\* WaveFunctionCollapse.__init__
Construct ==
  /\ phase = "new"
  /\ IF ~ValidateConstraints(tileset)
     THEN /\ phase' = "error"
          /\ UNCHANGED <<grid, generation_step, grid_tileset>>
     ELSE /\ phase' = "ready"
          /\ grid' = InitializeGrid(tileset, width, height)
          /\ grid_tileset' = tileset
          /\ generation_step' = 0
  /\ UNCHANGED <<tileset, width, height, ret, pc, attempt, step, max_steps,
                 result>>
  /\ UNCHANGED <<twinVars, prop>>

\* a caller's own generate_step call (main.py, step_generation)
Step ==
  /\ phase = "ready"
  /\ pc = "idle"
  /\ generation_step < StepCap
  /\ \E i \in CellDraws(grid, width, height) :
       \E j \in TypeDraws(grid, width, height, i) :
         LET r == GenerateStep(tileset, width, height, grid, generation_step,
                               i, j)
         IN /\ grid' = r.grid
            /\ generation_step' = r.generation_step
            /\ ret' = [cont |-> r.cont, kind |-> r.kind, cell |-> r.cell]
  /\ UNCHANGED <<tileset, width, height, phase, pc, attempt, step, max_steps,
                 result>>
  /\ UNCHANGED <<twinVars, prop, grid_tileset>>

\* a caller's own initialize_grid call
Reset ==
  /\ phase = "ready"
  /\ pc = "idle"
  /\ grid # InitializeGrid(tileset, width, height) \/ generation_step # 0
  /\ grid' = InitializeGrid(tileset, width, height)
  /\ grid_tileset' = tileset
  /\ generation_step' = 0
  /\ UNCHANGED <<tileset, width, height, phase, ret, pc, attempt, step,
                 max_steps, result>>
  /\ UNCHANGED <<twinVars, prop>>

\* the small tile sets that have every small type in the catalog and in the
\* adjacency dictionary
FullSmallTileSets ==
  {ts \in SmallTileSets :
     ts.tiles = SmallTypes /\ DOMAIN ts.constraints = SmallTypes}

\* generate() is explored on the grids of at most GenMaxCells cells, for the
\* three shipped tile sets and the full small ones
GenConfig ==
  /\ width * height <= GenMaxCells
  /\ tileset \in ShippedTileSets \cup FullSmallTileSets

\* a caller's generate(max_steps) call: entry into the function
GenerateCall ==
  /\ phase = "ready"
  /\ pc = "idle"
  /\ GenConfig
  /\ \E m \in 0..MaxStepsArg : max_steps' = m
  /\ pc' = "attempt"
  /\ attempt' = 0
  /\ step' = 0
  /\ result' = "none"
  /\ UNCHANGED <<tileset, width, height, phase, grid, generation_step, ret>>
  /\ UNCHANGED <<twinVars, prop, grid_tileset>>

\* Faulty variant of the attempt loop: the grid of the previous attempt is kept.
GenAttemptKeepingGrid ==
  /\ pc = "attempt"
  /\ attempt < max_retries
  /\ generation_step' = 0
  /\ step' = 0
  /\ pc' = "steps"
  /\ UNCHANGED <<tileset, width, height, phase, grid, ret, attempt, max_steps,
                 result>>
  /\ UNCHANGED <<twinVars, prop, grid_tileset>>

\* generate(): "for attempt in range(self.max_retries): self.initialize_grid()"
GenAttempt ==
  /\ pc = "attempt"
  /\ attempt < max_retries
  /\ grid' = InitializeGrid(tileset, width, height)
  /\ grid_tileset' = tileset
  /\ generation_step' = 0
  /\ step' = 0
  /\ pc' = "steps"
  /\ UNCHANGED <<tileset, width, height, phase, ret, attempt, max_steps,
                 result>>
  /\ UNCHANGED <<twinVars, prop>>

\* generate(): one iteration of "for step in range(max_steps)"
GenStep ==
  /\ pc = "steps"
  /\ step < max_steps
  /\ \E i \in CellDraws(grid, width, height) :
       \E j \in TypeDraws(grid, width, height, i) :
         LET r == GenerateStep(tileset, width, height, grid, generation_step,
                               i, j)
         IN /\ grid' = r.grid
            /\ generation_step' = r.generation_step
            /\ ret' = [cont |-> r.cont, kind |-> r.kind, cell |-> r.cell]
            /\ IF ~r.cont
               THEN IF IsComplete(r.grid)
                    THEN \* return True
                         /\ result' = "True"
                         /\ pc' = "idle"
                         /\ attempt' = 0
                         /\ step' = 0
                         /\ max_steps' = 0
                    ELSE \* break
                         /\ attempt' = attempt + 1
                         /\ pc' = "attempt"
                         /\ UNCHANGED <<step, max_steps, result>>
               ELSE /\ step' = step + 1
                    /\ UNCHANGED <<pc, attempt, max_steps, result>>
  /\ UNCHANGED <<tileset, width, height, phase>>
  /\ UNCHANGED <<twinVars, prop, grid_tileset>>

\* generate(): range(max_steps) is exhausted, the attempt ends
GenStepsExhausted ==
  /\ pc = "steps"
  /\ step >= max_steps
  /\ attempt' = attempt + 1
  /\ pc' = "attempt"
  /\ UNCHANGED <<tileset, width, height, phase, grid, generation_step, ret,
                 step, max_steps, result>>
  /\ UNCHANGED <<twinVars, prop, grid_tileset>>

\* generate(): range(self.max_retries) is exhausted, return False
GenReturnFalse ==
  /\ pc = "attempt"
  /\ attempt >= max_retries
  /\ result' = "False"
  /\ pc' = "idle"
  /\ attempt' = 0
  /\ step' = 0
  /\ max_steps' = 0
  /\ UNCHANGED <<tileset, width, height, phase, grid, generation_step, ret>>
  /\ UNCHANGED <<twinVars, prop, grid_tileset>>

Next ==
  \/ Construct
  \/ Step
  \/ Reset
  \/ GenerateCall
  \/ GenAttempt
  \/ GenStep
  \/ GenStepsExhausted
  \/ GenReturnFalse

Spec == Init /\ [][Next]_vars

\* ------------------------------------- two solvers, one random generator
\* Module random keeps one generator for the whole process.  It is abstracted
\* to a deterministic machine over 0..RngModulus-1: seed(s) puts it in a state
\* fixed by s, every random.choice reads the state and advances it.

\* random.seed(seed)
Seeded(s) == s % RngModulus

\* the state after one draw
NextRandom(r) == (5 * r + 3) % RngModulus

\* the index random.choice draws in a list of n items, from state r
Drawn(r, n) == (r % n) + 1

\* generate(max_steps = 10000): the default step ceiling
DefaultMaxSteps == 10000

\* generate_step under the generator state r: the step's return with the
\* generator state after the draws it made
SeededStep(ts, w, h, g, gs, r) ==
  IF HasContradiction(g) \/ IsComplete(g) \/ FindMinEntropyCells(g, w, h) = <<>>
  THEN [out |-> GenerateStep(ts, w, h, g, gs, 1, 1), rng |-> r]
  ELSE LET candidates == FindMinEntropyCells(g, w, h)
           i == Drawn(r, Len(candidates))
           r1 == NextRandom(r)
           cell == g[candidates[i]]
       IN IF cell.possibilities = {} \/ cell.collapsed
          THEN [out |-> GenerateStep(ts, w, h, g, gs, i, 1), rng |-> r1]
          ELSE [out |-> GenerateStep(ts, w, h, g, gs, i,
                          Drawn(r1, Cardinality(cell.possibilities))),
                rng |-> NextRandom(r1)]

\* generate(): "for step in range(max_steps)" with left iterations to go:
\* [grid, rng, outcome], outcome "true" (return True), "break" or "exhausted".
\* (The step's return is bound by a quantifier so that it is computed once.)
RECURSIVE SeededSteps(_, _, _, _, _, _, _)
SeededSteps(ts, w, h, g, gs, r, left) ==
  IF left = 0 THEN [grid |-> g, rng |-> r, outcome |-> "exhausted"]
  ELSE CHOOSE end \in
         {IF ~s.out.cont
          THEN [grid |-> s.out.grid, rng |-> s.rng,
                outcome |-> IF IsComplete(s.out.grid) THEN "true" ELSE "break"]
          ELSE SeededSteps(ts, w, h, s.out.grid, s.out.generation_step, s.rng,
                           left - 1) :
            s \in {SeededStep(ts, w, h, g, gs, r)}} : TRUE

\* generate(): "for attempt in range(self.max_retries)" with left attempts to
\* go, g the grid the previous attempt left: [result, grid, rng]
RECURSIVE SeededAttempts(_, _, _, _, _, _, _)
SeededAttempts(ts, w, h, g, r, left, steps) ==
  IF left = 0 THEN [result |-> "False", grid |-> g, rng |-> r]
  ELSE CHOOSE end \in
         {IF a.outcome = "true"
          THEN [result |-> "True", grid |-> a.grid, rng |-> a.rng]
          ELSE SeededAttempts(ts, w, h, a.grid, a.rng, left - 1, steps) :
            a \in {SeededSteps(ts, w, h, InitializeGrid(ts, w, h), 0, r,
                               steps)}} : TRUE

\* WaveFunctionCollapse.generate under the generator state r
SeededGenerate(ts, w, h, g, r, steps) ==
  SeededAttempts(ts, w, h, g, r, max_retries, steps)

TwinConfigs ==
  (ShippedTileSets \cup FullSmallTileSets) \X Dims(TwinMaxCells)

\* two solvers are about to be built from the same arguments; the generator
\* is in whatever state the process left it in
TwinInit ==
  /\ \E cfg \in TwinConfigs :
       tileset = cfg[1] /\ width = cfg[2][1] /\ height = cfg[2][2]
  /\ seed \in 0..MaxSeed
  /\ rng \in 0..(RngModulus - 1)
  /\ twin = NoTwins
  /\ phase = "new"
  /\ grid = <<>>
  /\ generation_step = 0
  /\ ret = NoReturn
  /\ pc = "idle"
  /\ attempt = 0
  /\ step = 0
  /\ max_steps = 0
  /\ result = "none"
  /\ prop = PropIdle
  /\ grid_tileset = NoTileSet

\* WaveFunctionCollapse.__init__ of twin solver k, with seed: random.seed(seed)
\* comes first, the validation second
TwinConstruct(k) ==
  /\ twin[k].phase = "new"
  /\ rng' = Seeded(seed)
  /\ IF ~ValidateConstraints(tileset)
     THEN twin' = [twin EXCEPT ![k].phase = "error"]
     ELSE twin' = [twin EXCEPT ![k].phase = "ready",
                               ![k].grid = InitializeGrid(tileset, width, height)]
  /\ UNCHANGED <<tileset, width, height, seed, soloVars, prop, grid_tileset>>

\* twin solver k runs generate() to its return
TwinGenerate(k) ==
  /\ twin[k].phase = "ready"
  /\ LET run == SeededGenerate(tileset, width, height, twin[k].grid, rng,
                               DefaultMaxSteps)
     IN /\ twin' = [twin EXCEPT ![k].phase = "done",
                                ![k].grid = run.grid,
                                ![k].result = run.result]
        /\ rng' = run.rng
  /\ UNCHANGED <<tileset, width, height, seed, soloVars, prop, grid_tileset>>

TwinNext ==
  \/ \E k \in {1, 2} : TwinConstruct(k)
  \/ \E k \in {1, 2} : TwinGenerate(k)

SpecTwin == TwinInit /\ [][TwinNext]_vars

\* ------------------------------------------ substituting the solver's TileSet
\* The solver keeps its TileSet in the public field self.tileset, which
\* initialize_grid and propagate_constraints read when they run; a substitution
\* is an assignment to that field.  It is explored on grids of at most
\* SubstMaxCells cells.
SubstMaxCells == 2

\* the validated tile sets a caller substitutes
SubstTileSets ==
  {ts \in ShippedTileSets \cup FullSmallTileSets : ValidateConstraints(ts)}

SubstInit ==
  /\ Init
  /\ tileset \in ShippedTileSets \cup FullSmallTileSets
  /\ width * height <= SubstMaxCells

\* solver.tileset = ts, on a constructed solver
SetTileset ==
  /\ phase = "ready"
  /\ pc = "idle"
  /\ \E ts \in SubstTileSets \ {tileset} : tileset' = ts
  /\ UNCHANGED <<width, height, soloVars, twinVars, prop, grid_tileset>>

SubstNext ==
  \/ Construct
  \/ Step
  \/ Reset
  \/ SetTileset

SpecSubst == SubstInit /\ [][SubstNext]_vars

\* --------------------------------- propagate_constraints, statement by statement
\* generate_step is split at the statements of propagate_constraints, so that
\* the states inside a propagation pass are states of the model.  prop holds
\* the locals of the call in progress: queue, visited, the dequeued coordinate
\* cur with its neighbours still to examine (nbrs), and the start coordinate;
\* prop.expanded lists the coordinates whose neighbours have been examined in
\* this pass and prop.shrunk the coordinates whose candidate set has shrunk in
\* this pass.
\* The shipped tile sets are explored on grids of at most PropMaxCells cells.
PropMaxCells == 4

\* a caller-built TileSet of four types: grass - sand - water and sand - forest,
\* water and forest also next to themselves.  On a 3x3 grid its propagation
\* passes enqueue a coordinate that has already been visited.
FourTypeTileSet ==
  [tiles |-> {"grass", "water", "sand", "forest"},
   constraints |->
     [t \in {"grass", "water", "sand", "forest"} |->
        CASE t = "grass"  -> {"sand"}
          [] t = "water"  -> {"water", "sand"}
          [] t = "sand"   -> {"grass", "water", "forest"}
          [] t = "forest" -> {"forest", "sand"}]]

PropConfigs ==
  (ShippedTileSets \X Dims(PropMaxCells))
    \cup (FullSmallTileSets \X Dims(SmallMaxCells))
    \cup {<<FourTypeTileSet, <<3, 3>>>>}

PropInit ==
  /\ \E cfg \in PropConfigs :
       tileset = cfg[1] /\ width = cfg[2][1] /\ height = cfg[2][2]
  /\ phase = "new"
  /\ grid = <<>>
  /\ generation_step = 0
  /\ ret = NoReturn
  /\ pc = "idle"
  /\ attempt = 0
  /\ step = 0
  /\ max_steps = 0
  /\ result = "none"
  /\ seed = 0
  /\ rng = 0
  /\ twin = NoTwins
  /\ prop = PropIdle
  /\ grid_tileset = NoTileSet

\* Faulty variant of line 160: the admissible set is assigned.
RestrictByAssignment(old_possibilities, valid_for_neighbor) == valid_for_neighbor

\* line 160: neighbor.possibilities &= valid_for_neighbor
Restrict(old_possibilities, valid_for_neighbor) ==
  old_possibilities \cap valid_for_neighbor

\* Faulty variant of line 167: every examined neighbour is enqueued.
ChangedAlways(possibilities, old_possibilities) == TRUE

\* line 167: neighbor.possibilities != old_possibilities
Changed(possibilities, old_possibilities) == possibilities # old_possibilities

\* a caller's initialize_grid call, between two generate_step calls
PropReset == prop.pc = "idle" /\ Reset

\* generate_step up to the call of propagate_constraints and the first two
\* statements of that call (lines 190-210, 126-127); a step that returns
\* before propagating is the whole call
StepBegin ==
  /\ phase = "ready"
  /\ pc = "idle"
  /\ prop.pc = "idle"
  /\ generation_step < StepCap
  /\ generation_step' = generation_step + 1
  /\ IF HasContradiction(grid)
     THEN /\ ret' = [cont |-> FALSE, kind |-> "contradiction", cell |-> NoCell]
          /\ UNCHANGED <<grid, prop>>
     ELSE IF IsComplete(grid)
     THEN /\ ret' = [cont |-> FALSE, kind |-> "complete", cell |-> NoCell]
          /\ UNCHANGED <<grid, prop>>
     ELSE IF FindMinEntropyCells(grid, width, height) = <<>>
     THEN /\ ret' = [cont |-> FALSE, kind |-> "no_cells", cell |-> NoCell]
          /\ UNCHANGED <<grid, prop>>
     ELSE \E i \in CellDraws(grid, width, height) :
            \E j \in TypeDraws(grid, width, height, i) :
              LET chosen == FindMinEntropyCells(grid, width, height)[i]
                  col == CollapseCell(grid[chosen], j)
              IN IF ~col.ok
                 THEN /\ ret' = [cont |-> FALSE, kind |-> "collapse_failed",
                                 cell |-> chosen]
                      /\ UNCHANGED <<grid, prop>>
                 ELSE /\ grid' = [grid EXCEPT ![chosen] = col.cell]
                      /\ prop' = [PropIdle EXCEPT !.pc = "loop",
                                                  !.queue = <<chosen>>,
                                                  !.start = chosen]
                      /\ UNCHANGED ret
  /\ UNCHANGED <<tileset, width, height, phase, pc, attempt, step, max_steps,
                 result>>
  /\ UNCHANGED <<twinVars, grid_tileset>>

\* lines 129-138: "while queue", popleft, the visited test, visited.add
PropDequeue ==
  /\ prop.pc = "loop"
  /\ prop.queue # <<>>
  /\ LET c == Head(prop.queue) IN
     IF c \in prop.visited
     THEN prop' = [prop EXCEPT !.queue = Tail(prop.queue)]
     ELSE prop' = [prop EXCEPT
                     !.queue = Tail(prop.queue),
                     !.visited = prop.visited \cup {c},
                     !.cur = c,
                     !.nbrs = GetNeighbors(width, height, c),
                     !.expanded = Append(prop.expanded, c),
                     !.pc = IF GetNeighbors(width, height, c) = <<>>
                            THEN "loop" ELSE "neighbors"]
  /\ UNCHANGED <<tileset, width, height, soloVars, twinVars, grid_tileset>>

\* Faulty variant of the neighbour iteration: a neighbour narrowed to a single
\* candidate is marked collapsed by the propagation itself.
PropNeighborCollapsingSingletons ==
  /\ prop.pc = "neighbors"
  /\ prop.nbrs # <<>>
  /\ LET n == Head(prop.nbrs)
         rest == Tail(prop.nbrs)
         after == IF rest = <<>> THEN "loop" ELSE "neighbors"
     IN IF grid[n].collapsed
        THEN /\ prop' = [prop EXCEPT !.nbrs = rest, !.pc = after]
             /\ UNCHANGED <<grid, ret>>
        ELSE LET old_possibilities == grid[n].possibilities
                 possibilities ==
                   old_possibilities \cap
                     ValidForNeighbor(tileset, grid[prop.cur])
             IN /\ grid' = [grid EXCEPT
                      ![n].possibilities = possibilities,
                      ![n].collapsed = (Cardinality(possibilities) = 1)]
                /\ IF possibilities = {}
                   THEN /\ ret' = [cont |-> FALSE, kind |-> "propagation_failed",
                                   cell |-> prop.start]
                        /\ prop' = PropIdle
                   ELSE /\ prop' = [prop EXCEPT
                              !.nbrs = rest,
                              !.pc = after,
                              !.queue =
                                IF possibilities # old_possibilities
                                THEN Append(prop.queue, n) ELSE prop.queue,
                              !.shrunk =
                                IF possibilities # old_possibilities
                                THEN prop.shrunk \cup {n} ELSE prop.shrunk]
                        /\ UNCHANGED ret
  /\ UNCHANGED <<tileset, width, height, phase, generation_step, pc, attempt,
                 step, max_steps, result>>
  /\ UNCHANGED <<twinVars, grid_tileset>>

\* lines 141-168: one iteration of the loop over the neighbours of cur; an
\* emptied neighbour makes propagate_constraints return False and generate_step
\* return "Constraint propagation failed" (lines 163-164, 213-214)
PropNeighbor ==
  /\ prop.pc = "neighbors"
  /\ prop.nbrs # <<>>
  /\ LET n == Head(prop.nbrs)
         rest == Tail(prop.nbrs)
         after == IF rest = <<>> THEN "loop" ELSE "neighbors"
     IN IF grid[n].collapsed
        THEN /\ prop' = [prop EXCEPT !.nbrs = rest, !.pc = after]
             /\ UNCHANGED <<grid, ret>>
        ELSE LET old_possibilities == grid[n].possibilities
                 possibilities ==
                   Restrict(old_possibilities,
                            ValidForNeighbor(tileset, grid[prop.cur]))
             IN /\ grid' = [grid EXCEPT ![n].possibilities = possibilities]
                /\ IF possibilities = {}
                   THEN /\ ret' = [cont |-> FALSE, kind |-> "propagation_failed",
                                   cell |-> prop.start]
                        /\ prop' = PropIdle
                   ELSE /\ prop' = [prop EXCEPT
                              !.nbrs = rest,
                              !.pc = after,
                              !.queue =
                                IF Changed(possibilities, old_possibilities)
                                THEN Append(prop.queue, n) ELSE prop.queue,
                              !.shrunk =
                                IF possibilities # old_possibilities
                                THEN prop.shrunk \cup {n} ELSE prop.shrunk]
                        /\ UNCHANGED ret
  /\ UNCHANGED <<tileset, width, height, phase, generation_step, pc, attempt,
                 step, max_steps, result>>
  /\ UNCHANGED <<twinVars, grid_tileset>>

\* the queue is empty: propagate_constraints returns True (line 170) and
\* generate_step returns "Collapsed cell at ..." (line 216)
PropReturnTrue ==
  /\ prop.pc = "loop"
  /\ prop.queue = <<>>
  /\ ret' = [cont |-> TRUE, kind |-> "collapsed", cell |-> prop.start]
  /\ prop' = PropIdle
  /\ UNCHANGED <<tileset, width, height, phase, grid, generation_step, pc,
                 attempt, step, max_steps, result>>
  /\ UNCHANGED <<twinVars, grid_tileset>>

PropNext ==
  \/ Construct
  \/ PropReset
  \/ StepBegin
  \/ PropDequeue
  \/ PropNeighbor
  \/ PropReturnTrue

SpecProp == PropInit /\ [][PropNext]_vars

\* a propagation pass in progress keeps running: the program is one thread
\* that executes propagate_constraints to its return
SpecPropLive ==
  SpecProp /\ WF_vars(PropDequeue \/ PropNeighbor \/ PropReturnTrue)

\* ------------------------------------------------- collapse_cell on a cell
\* The cells collapse_cell is applied to: an uncollapsed cell with any
\* candidate set (the empty one included), or a collapsed cell, which holds
\* exactly one candidate (lines 28-29).
CellInputs(ts) ==
  {[possibilities |-> p, collapsed |-> FALSE] : p \in SUBSET GetAllTypes(ts)}
    \cup {[possibilities |-> {t}, collapsed |-> TRUE] : t \in GetAllTypes(ts)}

\* a constructed single-cell solver of a shipped biome whose cell is one of
\* the inputs
CellInit ==
  /\ tileset \in {OceanBiome, MountainBiome}
  /\ width = 1 /\ height = 1
  /\ phase = "ready"
  /\ \E cell \in CellInputs(tileset) : grid = [c \in Coords(1, 1) |-> cell]
  /\ generation_step = 0
  /\ ret = NoReturn
  /\ pc = "idle"
  /\ attempt = 0
  /\ step = 0
  /\ max_steps = 0
  /\ result = "none"
  /\ seed = 0
  /\ rng = 0
  /\ twin = NoTwins
  /\ prop = PropIdle
  /\ grid_tileset = tileset

\* a call collapse_cell(cell) on the cell at (0, 0); ret records the returned
\* boolean and, in its cell slot, the cell as it was when the call was made
CollapseCellCall ==
  /\ phase = "ready"
  /\ pc = "idle"
  /\ LET cell == grid[<<0, 0>>]
         draws == IF cell.possibilities = {} \/ cell.collapsed THEN {1}
                  ELSE 1..Cardinality(cell.possibilities)
     IN \E j \in draws :
          LET r == CollapseCell(cell, j) IN
          /\ grid' = [grid EXCEPT ![<<0, 0>>] = r.cell]
          /\ ret' = [cont |-> r.ok, kind |-> "collapse_cell", cell |-> cell]
  /\ UNCHANGED <<tileset, width, height, phase, generation_step, pc, attempt,
                 step, max_steps, result>>
  /\ UNCHANGED <<twinVars, prop, grid_tileset>>

CellNext == CollapseCellCall

SpecCell == CellInit /\ [][CellNext]_vars

\* ---------------------------------------------------------------- claims
\* orthogonal adjacency of two coordinates, stated without get_neighbors
Adjacent(c, d) ==
  \/ c[1] = d[1] /\ (c[2] = d[2] + 1 \/ d[2] = c[2] + 1)
  \/ c[2] = d[2] /\ (c[1] = d[1] + 1 \/ d[1] = c[1] + 1)

\* C1: whenever the solver's grid is complete (after any sequence of
\* generate_step calls, inside or outside generate()), every cell holds
\* exactly one tile type and every two orthogonally adjacent cells hold types
\* a, b with can_be_adjacent(a, b) and can_be_adjacent(b, a).
C1_CompleteGridIsConsistent ==
  (phase = "ready" /\ IsComplete(grid)) =>
    \A c \in DOMAIN grid :
      /\ Cardinality(grid[c].possibilities) = 1
      /\ \A d \in DOMAIN grid :
           Adjacent(c, d) =>
             \A a \in grid[c].possibilities : \A b \in grid[d].possibilities :
               CanBeAdjacent(tileset, a, b) /\ CanBeAdjacent(tileset, b, a)

\* a complete 2x2 grid of the mountain biome whose corner (0,0) differs from
\* both of its neighbours
C1_Witness ==
  /\ phase = "ready"
  /\ IsComplete(grid)
  /\ tileset = MountainBiome
  /\ width = 2 /\ height = 2
  /\ grid[<<0, 0>>].possibilities # grid[<<1, 0>>].possibilities
  /\ grid[<<0, 0>>].possibilities # grid[<<0, 1>>].possibilities

\* some declared pair A -> B lacks the pair B -> A
Asymmetric(ts) ==
  \E A \in DOMAIN ts.constraints : \E B \in ts.constraints[A] :
    ~(B \in DOMAIN ts.constraints /\ A \in ts.constraints[B])

\* C3: a constructor call with an asymmetric relation ends in the error and
\* leaves no solver (no grid); a solver exists only if validate_constraints()
\* held for its tile set.
C3_AsymmetricIsRejected ==
  /\ (phase # "new" /\ Asymmetric(tileset)) => (phase = "error" /\ grid = <<>>)
  /\ phase = "ready" => ValidateConstraints(tileset)

\* the constructor has rejected a relation whose only flaw is that the second
\* declared type allows the first and the first does not allow the second
C3_Witness ==
  /\ phase = "error"
  /\ tileset.tiles = SmallTypes
  /\ DOMAIN tileset.constraints = SmallTypes
  /\ tileset.constraints[TypeOrder[1]] = {}
  /\ tileset.constraints[TypeOrder[2]] = {TypeOrder[1]}

\* C4: the constructor accepts the default, ocean and mountain tile sets, and
\* every tile set it accepts declares a non-empty neighbour set for every type
\* of get_all_types().
C4_AcceptedRelationIsFullyDefined ==
  /\ (phase # "new" /\ tileset \in ShippedTileSets) => phase = "ready"
  /\ phase = "ready" =>
       \A t \in GetAllTypes(tileset) :
         t \in DOMAIN tileset.constraints /\ GetValidNeighbors(tileset, t) # {}

\* (i) every declared pair has its converse, (ii) every referenced neighbour
\* is in the catalog
SymmetricAndComplete(ts) ==
  /\ \A A \in DOMAIN ts.constraints : \A B \in ts.constraints[A] :
       B \in DOMAIN ts.constraints /\ A \in ts.constraints[B]
  /\ UNION {ts.constraints[A] : A \in DOMAIN ts.constraints} \subseteq ts.tiles

\* C5: validate_constraints() is true exactly when (i) and (ii) hold, and
\* then valid_neighbors is a symmetric relation over all tile types; the
\* constructor's outcome is the one validate_constraints() decides.
C5_ValidateIsSymmetryAndCompleteness ==
  /\ ValidateConstraints(tileset) <=> SymmetricAndComplete(tileset)
  /\ phase = "ready" => SymmetricAndComplete(tileset)
  /\ phase = "error" => ~SymmetricAndComplete(tileset)
  /\ ValidateConstraints(tileset) =>
       \A A \in TileType : \A B \in TileType :
         B \in GetValidNeighbors(tileset, A) <=>
           A \in GetValidNeighbors(tileset, B)

\* a symmetric relation that names a type missing from the catalog has been
\* rejected
C5_Witness ==
  /\ phase = "error"
  /\ ~Asymmetric(tileset)
  /\ \E A \in DOMAIN tileset.constraints :
       ~(tileset.constraints[A] \subseteq tileset.tiles)

\* C10: a solver on the default tile set exists, and after the first collapse
\* on its fresh grid and the propagation from it every in-bounds orthogonal
\* neighbour of the collapsed cell holds exactly valid_neighbors(t), t the
\* collapsed type.
C10_NeighboursHoldValidNeighbors ==
  (phase # "new" /\ tileset = DefaultTileSet) =>
    /\ phase = "ready"
    /\ (generation_step = 1 /\ ret.cell # NoCell) =>
         /\ grid[ret.cell].collapsed
         /\ \A t \in grid[ret.cell].possibilities :
              \A n \in DOMAIN grid :
                Adjacent(ret.cell, n) =>
                  grid[n].possibilities = GetValidNeighbors(tileset, t)

\* a transition that is one generate_step call (a caller's or generate()'s)
IsStepCall == generation_step' = generation_step + 1

\* a transition in which generate() gives up the current attempt
AttemptEnds == pc = "steps" /\ pc' = "attempt"

\* a transition in which generate() returns
ReturnsTrue == pc = "steps" /\ pc' = "idle"

ReturnsFalse == pc = "attempt" /\ pc' = "idle"

\* C2: generate(max_steps) returns True exactly when an attempt's grid became
\* fully collapsed within max_steps generate_step calls: it returns True only
\* with a complete grid, no attempt is given up with a complete grid, and the
\* grid is incomplete whenever generate() returns False.
C2_SuccessIffCompletedWithinCeiling ==
  [][/\ ReturnsTrue => (result' = "True" /\ IsComplete(grid'))
     /\ AttemptEnds => ~IsComplete(grid')
     /\ ReturnsFalse => (result' = "False" /\ ~IsComplete(grid'))]_vars

\* C6: generate() makes at most max_retries attempts, each from a fresh grid;
\* the first attempt whose grid completes makes it return True with no further
\* attempt; it returns False only after max_retries attempts, each ended by a
\* contradiction or by the step ceiling.
C6_RetryDiscipline ==
  [][/\ attempt' <= max_retries
     /\ (pc = "attempt" /\ pc' = "steps") =>
          (/\ attempt < max_retries
           /\ attempt' = attempt
           /\ grid' = InitializeGrid(tileset, width, height)
           /\ generation_step' = 0)
     /\ ReturnsTrue => (result' = "True" /\ IsComplete(grid'))
     /\ AttemptEnds =>
          (/\ attempt' = attempt + 1
           /\ ~IsComplete(grid')
           /\ (HasContradiction(grid') \/ step >= max_steps))
     /\ ReturnsFalse => (result' = "False" /\ attempt = max_retries)]_vars

\* the cells whose collapsed flag differs between two grids
FlagChanged(g1, g2) == {c \in DOMAIN g1 : g1[c].collapsed # g2[c].collapsed}

\* C7: a generate_step call returns continue = True exactly when at entry there
\* was no contradiction, the grid was incomplete, and the propagation from the
\* collapsed cell succeeded; then exactly one cell, uncollapsed before, is
\* collapsed and no other flag changed.  A contradiction at entry is reported
\* first, completion second, and neither selects a cell.
C7_StepContinuesIff ==
  [][IsStepCall =>
      /\ ret'.cont <=>
           (/\ ~HasContradiction(grid)
            /\ ~IsComplete(grid)
            /\ ret'.cell \in DOMAIN grid
            /\ \E t \in grid[ret'.cell].possibilities :
                 LET p == PropagateConstraints(tileset, width, height,
                            [grid EXCEPT ![ret'.cell] =
                               [possibilities |-> {t}, collapsed |-> TRUE]],
                            ret'.cell)
                 IN p.ok /\ p.grid = grid')
      /\ ret'.cont =>
           (/\ FlagChanged(grid, grid') = {ret'.cell}
            /\ ~grid[ret'.cell].collapsed
            /\ grid'[ret'.cell].collapsed)
      /\ HasContradiction(grid) =>
           (ret'.kind = "contradiction" /\ ~ret'.cont /\ grid' = grid)
      /\ (~HasContradiction(grid) /\ IsComplete(grid)) =>
           (ret'.kind = "complete" /\ ~ret'.cont /\ grid' = grid)
      /\ ret'.kind \in {"contradiction", "complete"} => ret'.cell = NoCell]_vars

\* a step has continued on a 2x2 grid, and a step's propagation has failed
C7_Witness ==
  /\ phase = "ready"
  /\ width = 2 /\ height = 2
  /\ ret.cont
  /\ generation_step = 2

C7_WitnessFailure ==
  /\ phase = "ready"
  /\ ret.kind = "propagation_failed"
  /\ ~ret.cont
  /\ HasContradiction(grid)

\* the uncollapsed cells with at least one candidate
Eligible(g) ==
  {c \in DOMAIN g : ~g[c].collapsed /\ g[c].possibilities # {}}

\* the eligible cells of minimum candidate-set size
Tied(g) ==
  {c \in Eligible(g) :
     \A d \in Eligible(g) :
       Cardinality(g[c].possibilities) <= Cardinality(g[d].possibilities)}

\* C8: the cell a generate_step call collapses is an uncollapsed cell of
\* minimum candidate-set size among the eligible cells at the start of the
\* step, and every cell tied at that minimum can be the one chosen.
C8_MinimumEntropySelection ==
  [][/\ (IsStepCall /\ ret'.cell # NoCell) =>
          (/\ ret'.cell \in Tied(grid)
           /\ ~grid[ret'.cell].collapsed
           /\ grid'[ret'.cell].collapsed)
     /\ (/\ phase = "ready"
         /\ pc = "idle"
         /\ ~HasContradiction(grid)
         /\ ~IsComplete(grid)) =>
          \A c \in Tied(grid) :
            \E i \in CellDraws(grid, width, height) :
              /\ 1 \in TypeDraws(grid, width, height, i)
              /\ GenerateStep(tileset, width, height, grid, generation_step,
                              i, 1).cell = c]_vars

\* on a 4x1 grid the second step has collapsed (2,0), tied with the earlier
\* cell (0,0) and of lower entropy than (3,0)
C8_Witness ==
  /\ phase = "ready"
  /\ width = 4 /\ height = 1
  /\ generation_step = 2
  /\ ret.cont
  /\ ret.cell = <<2, 0>>
  /\ grid[<<1, 0>>].collapsed
  /\ ~grid[<<0, 0>>].collapsed
  /\ Entropy(grid[<<3, 0>>]) > Entropy(grid[<<0, 0>>])

\* C9: two solvers built from the same (width, height, TileSet, seed), each
\* run with generate(), end with the same tile at every coordinate, in
\* whatever order the two constructions and the two generate() calls happen.
C9_SameSeedSameGrid ==
  (twin[1].phase = "done" /\ twin[2].phase = "done") =>
    twin[1].grid = twin[2].grid

\* every cell of g is uncollapsed and holds every type of the catalog
FreshGrid(g, ts) ==
  \A c \in DOMAIN g : ~g[c].collapsed /\ g[c].possibilities = GetAllTypes(ts)

\* C11: on a 1x1 grid of a tile set with at least one type, the first
\* generate_step call on the fresh grid continues, collapses the only cell to
\* one of its candidates, and is_complete() is true right after that call.
C11_SingleCellCollapsesInOneStep ==
  [][(/\ IsStepCall
      /\ width = 1 /\ height = 1
      /\ generation_step = 0
      /\ FreshGrid(grid, tileset)
      /\ GetAllTypes(tileset) # {}) =>
       (/\ ret'.cont
        /\ ret'.cell = <<0, 0>>
        /\ grid'[<<0, 0>>].collapsed
        /\ Cardinality(grid'[<<0, 0>>].possibilities) = 1
        /\ grid'[<<0, 0>>].possibilities \subseteq grid[<<0, 0>>].possibilities
        /\ IsComplete(grid'))]_vars

\* the single step has completed a 1x1 grid of a tile set with several types
C11_Witness ==
  /\ phase = "ready"
  /\ width = 1 /\ height = 1
  /\ Cardinality(GetAllTypes(tileset)) > 1
  /\ generation_step = 1
  /\ ret.cont
  /\ IsComplete(grid)

\* the two types of the catalog do not allow each other
MutuallyExclusive(ts) ==
  \A a \in GetAllTypes(ts) : \A b \in GetAllTypes(ts) \ {a} :
    ~CanBeAdjacent(ts, a, b)

\* no type of the catalog allows any type, itself included
NothingAllowed(ts) ==
  \A a \in GetAllTypes(ts) : \A b \in GetAllTypes(ts) :
    ~CanBeAdjacent(ts, a, b)

\* the first generate_step call on the fresh 2x1 grid of a two-type tile set
FirstStepOnPair ==
  /\ IsStepCall
  /\ width = 2 /\ height = 1
  /\ generation_step = 0
  /\ FreshGrid(grid, tileset)
  /\ Cardinality(GetAllTypes(tileset)) = 2

\* the step has collapsed one cell, emptied the other and reported the
\* contradiction through its return value
StepReportsContradiction ==
  /\ ~ret'.cont
  /\ ret'.kind = "propagation_failed"
  /\ ret'.cell \in DOMAIN grid
  /\ grid'[ret'.cell].collapsed
  /\ \A n \in DOMAIN grid \ {ret'.cell} :
       ~grid'[n].collapsed /\ grid'[n].possibilities = {}
  /\ HasContradiction(grid')

\* C12 as stated: on a 2x1 grid of a tile set whose only two types do not
\* allow each other, the first generate_step call collapses one cell, empties
\* the other cell's candidate set and returns a stop result that reports the
\* contradiction; has_contradiction() holds afterwards.
C12_MutualExclusionContradicts ==
  [][(FirstStepOnPair /\ MutuallyExclusive(tileset)) =>
       StepReportsContradiction]_vars

\* C12 amended: the same when neither type allows any neighbour at all, i.e.
\* each type excludes the other type and itself.
C12_NothingAllowedContradicts ==
  [][(FirstStepOnPair /\ NothingAllowed(tileset)) =>
       StepReportsContradiction]_vars

\* the first step on a 2x1 grid of two types that allow nothing has ended in
\* the reported contradiction
C12_Witness ==
  /\ phase = "ready"
  /\ width = 2 /\ height = 1
  /\ Cardinality(GetAllTypes(tileset)) = 2
  /\ NothingAllowed(tileset)
  /\ generation_step = 1
  /\ ret.kind = "propagation_failed"
  /\ ~ret.cont
  /\ HasContradiction(grid)

\* the kinds of (continue, message) pair generate_step returns
StepKinds ==
  {"contradiction", "complete", "no_cells", "collapse_failed",
   "propagation_failed", "collapsed"}

\* C13: no generate_step or generate call can raise.  The statements that can
\* raise never meet their raising condition: self.grid[y][x] (the grid keeps
\* the shape width x height), next(iter(possibilities)) of a collapsed cell (a
\* collapsed cell keeps a candidate), and the two random.choice calls (the
\* lists drawn from are not empty).  Every generate_step call returns one of
\* its (continue, message) pairs and every generate() call returns True or
\* False, contradictions and exhausted ceilings included.
C13_NoUncaughtFault ==
  [][/\ phase' = "ready" =>
          (/\ DOMAIN grid' = Coords(width, height)
           /\ \A c \in DOMAIN grid' :
                grid'[c].collapsed => grid'[c].possibilities # {})
     /\ IsStepCall =>
          (/\ ret'.kind \in StepKinds
           /\ ret'.cont <=> ret'.kind = "collapsed"
           /\ ret'.cell # NoCell =>
                (/\ ret'.cell \in DOMAIN grid
                 /\ FindMinEntropyCells(grid, width, height) # <<>>)
           /\ ret'.kind \in {"propagation_failed", "collapsed"} =>
                grid[ret'.cell].possibilities # {})
     /\ (ReturnsTrue \/ ReturnsFalse) => result' \in {"True", "False"}
     /\ AttemptEnds =>
          (HasContradiction(grid') \/ IsComplete(grid') \/ step >= max_steps)]_vars

\* generate() has returned False after its last attempt ended in a
\* contradiction
C13_Witness ==
  /\ phase = "ready"
  /\ pc = "idle"
  /\ result = "False"
  /\ ret.kind \in {"contradiction", "propagation_failed"}
  /\ HasContradiction(grid)

\* a transition in which initialize_grid runs: at the end of __init__, at the
\* start of an attempt of generate(), or called by the solver's user
InitializeGridCalled ==
  \/ phase = "new" /\ phase' = "ready"
  \/ pc = "attempt" /\ pc' = "steps"
  \/ /\ phase = "ready" /\ pc = "idle" /\ pc' = "idle"
     /\ ~IsStepCall
     /\ <<grid, generation_step>>' # <<grid, generation_step>>

\* C14: whatever the state initialize_grid is called in, it leaves a grid of
\* width x height cells, every cell uncollapsed with get_all_types() as its
\* candidate set, and the step counter at 0: no cell state of the previous
\* attempt survives.
C14_InitializeGridIsFresh ==
  [][InitializeGridCalled =>
       (/\ DOMAIN grid' = Coords(width, height)
        /\ FreshGrid(grid', tileset)
        /\ generation_step' = 0)]_vars

\* a second or later attempt of generate() starts, after an attempt that
\* ended in a failed propagation
C14_Witness ==
  /\ pc = "steps"
  /\ attempt >= 1
  /\ step = 0
  /\ generation_step = 0
  /\ ret.kind = "propagation_failed"
  /\ FreshGrid(grid, tileset)
  /\ DOMAIN grid = Coords(width, height)

\* C15: after a different validated TileSet has been substituted, the
\* generate_step calls made on the live grid still work with the TileSet the
\* grid was initialised with (each such call has the outcome generate_step
\* has under that TileSet), and the next initialize_grid builds the grid from
\* the new TileSet.
C15_SubstitutionIsNotRetroactive ==
  [][/\ (IsStepCall /\ grid_tileset # tileset) =>
          \E i \in CellDraws(grid, width, height) :
            \E j \in TypeDraws(grid, width, height, i) :
              LET r == GenerateStep(grid_tileset, width, height, grid,
                                    generation_step, i, j)
              IN grid' = r.grid /\ ret'.cont = r.cont /\ ret'.kind = r.kind
     /\ InitializeGridCalled =>
          (FreshGrid(grid', tileset) /\ grid_tileset' = tileset)]_vars

\* arc consistency over the 4-neighbourhood: each candidate of an uncollapsed
\* cell n is allowed by some candidate of each orthogonal neighbour c of n
ArcConsistent(g, ts) ==
  \A c \in DOMAIN g : \A n \in DOMAIN g :
    (Adjacent(c, n) /\ ~g[n].collapsed) =>
      \A a \in g[n].possibilities :
        \E t \in g[c].possibilities : a \in GetValidNeighbors(ts, t)

\* C16: a solver on the default tile set exists, and whenever a generate_step
\* call on its grid ends with a successful propagation the grid is arc
\* consistent: re-applying the neighbour restriction to any cell would shrink
\* nothing.
C16_PropagationReachesFixpoint ==
  (phase # "new" /\ tileset = DefaultTileSet) =>
    /\ phase = "ready"
    /\ (generation_step > 0 /\ ret.cont) => ArcConsistent(grid, tileset)

\* a transition that is a caller's initialize_grid call between two steps
ResetCalled ==
  /\ phase = "ready"
  /\ prop.pc = "idle" /\ prop'.pc = "idle"
  /\ ~IsStepCall
  /\ <<grid, generation_step>>' # <<grid, generation_step>>

\* C17: between two initialize_grid calls no candidate set grows: across the
\* collapse of a step and across every statement of a propagation pass, each
\* cell's candidate set is a subset of what it was in the state before.
C17_CandidateSetsOnlyShrink ==
  [][(phase = "ready" /\ ~ResetCalled) =>
       \A c \in DOMAIN grid :
         /\ c \in DOMAIN grid'
         /\ grid'[c].possibilities \subseteq grid[c].possibilities]_vars

\* inside the propagation pass of a second step, some candidate set has shrunk
\* and a further neighbour is about to be examined
C17_Witness ==
  /\ prop.pc = "neighbors"
  /\ prop.shrunk # {}
  /\ generation_step = 2
  /\ \E c \in prop.shrunk :
       grid[c].possibilities # GetAllTypes(tileset) /\ ~grid[c].collapsed

\* a generate_step call that ran propagate_constraints from the cell it
\* collapsed
PropagationRan ==
  /\ IsStepCall
  /\ ret'.cell # NoCell
  /\ ret'.kind # "collapse_failed"

\* the cells that are uncollapsed and without candidate in g2 and had a
\* candidate in g1
Emptied(g1, g2) ==
  {c \in DOMAIN g1 :
     ~g2[c].collapsed /\ g2[c].possibilities = {} /\ g1[c].possibilities # {}}

\* C18: propagate_constraints, run from the cell a step has just collapsed in a
\* grid without contradiction, returns False exactly when it has emptied the
\* candidate set of an uncollapsed cell; when it returns True,
\* has_contradiction() is false right after.
C18_PropagationFailsIffEmptied ==
  [][PropagationRan =>
       (/\ ~HasContradiction(grid)
        /\ grid'[ret'.cell].collapsed /\ ~grid[ret'.cell].collapsed
        /\ ret'.kind \in {"propagation_failed", "collapsed"}
        /\ ret'.kind = "propagation_failed" <=> Emptied(grid, grid') # {}
        /\ ret'.kind = "collapsed" => ~HasContradiction(grid'))]_vars

\* on a grid of at least three cells of a shipped biome, the propagation from
\* the collapsed cell has emptied a neighbour of it and returned at once,
\* leaving another cell untouched
C18_Witness ==
  /\ phase = "ready"
  /\ tileset \in ShippedTileSets
  /\ width * height >= 3
  /\ ret.kind = "propagation_failed"
  /\ \E c \in DOMAIN grid :
       ~grid[c].collapsed /\ grid[c].possibilities = {} /\ Adjacent(c, ret.cell)
  /\ \E d \in DOMAIN grid :
       ~grid[d].collapsed /\ grid[d].possibilities = GetAllTypes(tileset)

\* C19: in every state of a constructed solver each collapsed cell has exactly
\* one candidate, the entropy of a cell is the size of its candidate set when it
\* is uncollapsed and 0 when it is collapsed, and is_complete() and
\* has_contradiction() are never both true.
C19_CellInvariants ==
  phase = "ready" =>
    /\ \A c \in DOMAIN grid :
         /\ grid[c].collapsed => Cardinality(grid[c].possibilities) = 1
         /\ ~grid[c].collapsed =>
              Entropy(grid[c]) = Cardinality(grid[c].possibilities)
         /\ grid[c].collapsed => Entropy(grid[c]) = 0
    /\ ~(IsComplete(grid) /\ HasContradiction(grid))

\* a grid with a collapsed cell next to an uncollapsed cell that has lost some
\* but not all of its candidates
C19_Witness ==
  /\ phase = "ready"
  /\ \E c \in DOMAIN grid : \E d \in DOMAIN grid :
       /\ Adjacent(c, d)
       /\ grid[c].collapsed
       /\ ~grid[d].collapsed
       /\ Entropy(grid[d]) >= 2
       /\ Entropy(grid[d]) < Cardinality(GetAllTypes(tileset))

NoDuplicates(seq) == \A i \in 1..Len(seq) : \A k \in 1..Len(seq) :
  seq[i] = seq[k] => i = k

\* C20: every propagate_constraints call returns; within one pass no coordinate
\* has its neighbours examined twice, and a coordinate other than the start
\* has them examined only after its candidate set has shrunk in that pass.
C20_PropagationTerminates ==
  /\ [](/\ NoDuplicates(prop.expanded)
        /\ \A i \in 1..Len(prop.expanded) :
             prop.expanded[i] # prop.start => prop.expanded[i] \in prop.shrunk)
  /\ (prop.pc # "idle") ~> (prop.pc = "idle")

\* a pass has examined the neighbours of three coordinates and is about to
\* dequeue a coordinate it has already visited
C20_Witness ==
  /\ prop.pc = "loop"
  /\ Len(prop.expanded) >= 3
  /\ prop.queue # <<>>
  /\ Head(prop.queue) \in prop.visited

\* C21: in every state between two generate_step calls in which
\* has_contradiction() is false, each candidate of an uncollapsed cell is in
\* valid_neighbors(t) for the type t of each of its collapsed orthogonal
\* neighbours.
C21_CandidatesAgreeWithCollapsedNeighbours ==
  (phase = "ready" /\ ~HasContradiction(grid)) =>
    \A c \in DOMAIN grid : \A n \in DOMAIN grid :
      (Adjacent(c, n) /\ grid[c].collapsed /\ ~grid[n].collapsed) =>
        \A t \in grid[c].possibilities : \A a \in grid[n].possibilities :
          a \in GetValidNeighbors(tileset, t)

\* on a 3x1 grid the two end cells are collapsed to different types and the
\* middle cell is uncollapsed, without contradiction
C21_Witness ==
  /\ phase = "ready"
  /\ width = 3 /\ height = 1
  /\ ~HasContradiction(grid)
  /\ grid[<<0, 0>>].collapsed
  /\ grid[<<2, 0>>].collapsed
  /\ ~grid[<<1, 0>>].collapsed
  /\ grid[<<0, 0>>].possibilities # grid[<<2, 0>>].possibilities

\* C22: while propagate_constraints runs, no cell's collapsed flag changes and
\* a collapsed cell (the start cell included) keeps its candidate set; a cell
\* narrowed to one candidate stays uncollapsed.
C22_PropagationLeavesCollapsedCellsAlone ==
  [][prop.pc # "idle" =>
       \A c \in DOMAIN grid :
         /\ grid'[c].collapsed = grid[c].collapsed
         /\ grid[c].collapsed => grid'[c] = grid[c]]_vars

\* a propagation pass in progress has narrowed an uncollapsed cell to a single
\* candidate, next to its collapsed start cell
C22_Witness ==
  /\ prop.pc = "loop"
  /\ grid[prop.start].collapsed
  /\ \E n \in prop.shrunk :
       /\ Cardinality(grid[n].possibilities) = 1
       /\ ~grid[n].collapsed

\* some uncollapsed cell has no candidate left (stated on the cells)
SomeCellEmptied ==
  \E c \in DOMAIN grid : ~grid[c].collapsed /\ Cardinality(grid[c].possibilities) = 0

\* every cell carries the collapsed flag (stated on the cells)
AllCellsCollapsed == \A c \in DOMAIN grid : grid[c].collapsed

\* C23: a generate_step call on a grid with a contradiction returns
\* continue=False with the contradiction outcome, one on a complete grid
\* returns continue=False with the completion outcome, and both leave every
\* cell as it was (so the state stays terminal for the next call).
C23_TerminalStatesAbsorbing ==
  [][IsStepCall =>
       /\ SomeCellEmptied =>
            ret'.kind = "contradiction" /\ ~ret'.cont /\ grid' = grid
       /\ AllCellsCollapsed =>
            ret'.kind = "complete" /\ ~ret'.cont /\ grid' = grid]_vars

\* generate_step has been called again after a step that collapsed a cell and
\* emptied another one
C23_Witness ==
  /\ ret.kind = "contradiction"
  /\ generation_step >= 3
  /\ SomeCellEmptied
  /\ \E c \in DOMAIN grid : grid[c].collapsed

\* generate_step has been called twice on a complete grid of several cells
C23_WitnessComplete ==
  /\ ret.kind = "complete"
  /\ AllCellsCollapsed
  /\ width * height >= 2
  /\ generation_step = width * height + 2

\* the number of cells carrying the collapsed flag
CollapsedCount == Cardinality({c \in DOMAIN grid : grid[c].collapsed})

\* C24: counting generate_step calls from a fresh grid, the k-th call continues
\* only if it leaves exactly k collapsed cells, so no call after the
\* (width*height)-th continues; the grid is complete only after width*height
\* continuing calls, and the next call is the first that reports completion.
C24_StepsBoundedByCells ==
  (phase = "ready" /\ generation_step > 0) =>
    /\ ret.cont =>
         CollapsedCount = generation_step /\ generation_step <= width * height
    /\ generation_step > width * height => ~ret.cont
    /\ AllCellsCollapsed =>
         /\ generation_step >= width * height
         /\ generation_step = width * height =>
              ret.cont /\ ret.kind = "collapsed"
         /\ generation_step > width * height => ret.kind = "complete"
    /\ ret.kind = "complete" =>
         AllCellsCollapsed /\ generation_step >= width * height + 1

\* a grid of at least four cells has been completed and the call after the
\* last collapse has reported completion
C24_Witness ==
  /\ phase = "ready"
  /\ width * height >= 4
  /\ AllCellsCollapsed
  /\ generation_step = width * height + 1
  /\ ret.kind = "complete"
  /\ ~ret.cont

\* C25: no generate_step call ends in the "No valid cells to collapse" or the
\* "Failed to collapse cell" outcome; called on a grid without contradiction
\* that is not complete, find_min_entropy_cells returns a non-empty list and
\* collapse_cell succeeds on each cell and type the step can draw.
C25_NoDeadStepOutcome ==
  [][IsStepCall =>
       /\ ret'.kind \notin {"no_cells", "collapse_failed"}
       /\ (~SomeCellEmptied /\ ~AllCellsCollapsed) =>
            LET candidates == FindMinEntropyCells(grid, width, height) IN
            /\ candidates # <<>>
            /\ \A i \in 1..Len(candidates) :
                 \A j \in 1..Cardinality(grid[candidates[i]].possibilities) :
                   CollapseCell(grid[candidates[i]], j).ok
            /\ ret'.kind \in {"collapsed", "propagation_failed"}]_vars

\* a second or later step has collapsed a cell of a grid in which several
\* cells still tie for the minimum entropy
C25_Witness ==
  /\ phase = "ready"
  /\ generation_step >= 2
  /\ ret.kind = "collapsed"
  /\ ~SomeCellEmptied
  /\ ~AllCellsCollapsed
  /\ Len(FindMinEntropyCells(grid, width, height)) >= 2

\* C26: every generate_step call (a caller's or generate()'s) adds exactly one
\* to generation_step whatever it returns; initialize_grid (a caller's, the
\* constructor's or generate()'s) sets it to 0; no other operation changes it.
C26_CounterCountsEveryCall ==
  [][/\ (Step \/ GenStep) => generation_step' = generation_step + 1
     /\ (Reset \/ GenAttempt) => generation_step' = 0
     /\ Construct => generation_step' = 0
     /\ (GenerateCall \/ GenStepsExhausted \/ GenReturnFalse) =>
          generation_step' = generation_step]_vars

\* the counter has run at least three calls past the completion of the grid
C26_Witness ==
  /\ phase = "ready"
  /\ AllCellsCollapsed
  /\ ret.kind = "complete"
  /\ generation_step >= width * height + 3

\* C27: collapse_cell on a cell with no candidate returns False and leaves the
\* cell as it was; on a collapsed cell it returns True and leaves the cell as
\* it was; on any other cell it returns True and leaves the cell collapsed to
\* one type that was among its candidates before the call.
C27_CollapseCellCases ==
  [][ret'.kind = "collapse_cell" =>
       LET cell == grid[<<0, 0>>]
           after == grid'[<<0, 0>>]
       IN /\ Cardinality(cell.possibilities) = 0 =>
               ~ret'.cont /\ after = cell
          /\ cell.collapsed => ret'.cont /\ after = cell
          /\ (Cardinality(cell.possibilities) > 0 /\ ~cell.collapsed) =>
               /\ ret'.cont
               /\ after.collapsed
               /\ \E t \in cell.possibilities : after.possibilities = {t}]_vars

\* collapse_cell has collapsed a cell that held three or more candidates
C27_Witness ==
  /\ ret.kind = "collapse_cell"
  /\ ret.cont
  /\ ~ret.cell.collapsed
  /\ Cardinality(ret.cell.possibilities) >= 3
  /\ grid[<<0, 0>>].collapsed
  /\ grid[<<0, 0>>].possibilities \subseteq ret.cell.possibilities

\* collapse_cell has returned False on a cell without candidates
C27_WitnessEmpty ==
  /\ ret.kind = "collapse_cell"
  /\ ~ret.cont
  /\ grid[<<0, 0>>].possibilities = {}
  /\ ~grid[<<0, 0>>].collapsed

====
